---- MODULE Spec2Model ----
(***************************************************************************)
(* A model of the question-answering service of this repository: the       *)
(* vector search (rag/Vector_matching.py), the per-session follow-up       *)
(* counter and history (main/qa_engine.py, QASessionState), the routing of *)
(* a turn in its three implementations (QAEngine.handle_query,             *)
(* QAEngine.handle_query_stream and the command-line loop of main/main.py) *)
(* and the /chat handler of api/api_server.py that runs the engine on a    *)
(* thread pool.                                                            *)
(*                                                                         *)
(* Texts are sequences of string tokens, so that joining fragments is      *)
(* concatenation.  A similarity is a pair [d, n] standing for the real     *)
(* number d / sqrt(n), so that cosine similarities are compared exactly    *)
(* (floating-point rounding is not modelled).                              *)
(***************************************************************************)
EXTENDS Integers, Sequences, FiniteSets, TLC

\* ------------------------------------------------------------------ bounds
\* Turns started in one behaviour of the sequential specification.
MaxTurns == 3
\* Turns started in one behaviour of the long-session specification.
MaxLongTurns == 5
\* Turns started in one behaviour of the thread-pool specification.
MaxApiTurns == 2
\* Collaborator failures (raised exceptions) injected in one behaviour.
MaxFaults == 1
\* Fragments the answer generator produces for one answer.
MaxChunks == 2
\* Entries of a knowledge base of the search specification.
MaxEntries == 3
\* The largest top_k of a call of the search specification.
MaxTopK == 3
\* Rows (documents or annexes) an item has in the database.
MaxRows == 2
\* Turns of a session in the specifications of the streamed responses.
MaxLiveTurns == 1

\* ------------------------------------------------------- program constants
\* The follow-up limit of the routing condition `int_id < 3`.
FollowupLimit == 3
\* The history cap of the command-line loop, `len(intent_history) > 10`.
HistoryCap == 10
\* top_k of every search call of the three implementations.
TopK == 3

\* similarity_threshold = 0.5 = 1 / sqrt(4)
Threshold == [d |-> 1, n |-> 4]

\* ------------------------------------------------------------ vector search
Dot(a, b) == a[1] * b[1] + a[2] * b[2]
Norm2(a) == Dot(a, a)

\* _cosine_similarity: 0.0 when either norm is zero, else dot / (|a| * |b|).
CosineSimilarity(vec1, vec2) ==
    IF Norm2(vec1) = 0 \/ Norm2(vec2) = 0
    THEN [d |-> 0, n |-> 1]
    ELSE [d |-> Dot(vec1, vec2), n |-> Norm2(vec1) * Norm2(vec2)]

\* a >= b for similarities a = a.d / sqrt(a.n), b = b.d / sqrt(b.n)
SimGE(a, b) ==
    IF a.d >= 0 /\ b.d < 0 THEN TRUE
    ELSE IF a.d < 0 /\ b.d >= 0 THEN FALSE
    ELSE IF a.d >= 0 THEN a.d * a.d * b.n >= b.d * b.d * a.n
    ELSE a.d * a.d * b.n <= b.d * b.d * a.n

SimGT(a, b) == ~SimGE(b, a)

\* A wrong order, to compare with InsertSorted: a match goes before the
\* matches it ties with.
RECURSIVE InsertBeforeTies(_, _)
InsertBeforeTies(m, s) ==
    IF s = <<>> THEN <<m>>
    ELSE IF SimGE(m.similarity, Head(s).similarity) THEN <<m>> \o s
    ELSE <<Head(s)>> \o InsertBeforeTies(m, Tail(s))

\* list.insert of one match into a list sorted by similarity descending, after
\* every element that is not smaller: the stable order of sorted(reverse=True).
RECURSIVE InsertSorted(_, _)
InsertSorted(m, s) ==
    IF s = <<>> THEN <<m>>
    ELSE IF SimGT(m.similarity, Head(s).similarity) THEN <<m>> \o s
    ELSE <<Head(s)>> \o InsertSorted(m, Tail(s))

RECURSIVE SortMatches(_)
SortMatches(s) ==
    IF s = <<>> THEN <<>>
    ELSE InsertSorted(s[Len(s)], SortMatches(SubSeq(s, 1, Len(s) - 1)))

\* the loop of search: entries without a vector are skipped, every other entry
\* becomes a match carrying its similarity
RECURSIVE AllMatches(_, _)
AllMatches(kb, qv) ==
    IF kb = <<>> THEN <<>>
    ELSE LET item == Head(kb)
             rest == AllMatches(Tail(kb), qv)
         IN IF item.vector = <<>> THEN rest
            ELSE <<[id |-> item.id, text |-> item.text,
                    similarity |-> CosineSimilarity(qv, item.vector)]>> \o rest

RECURSIVE FilterThreshold(_, _)
FilterThreshold(s, thr) ==
    IF s = <<>> THEN <<>>
    ELSE IF SimGE(Head(s).similarity, thr)
         THEN <<Head(s)>> \o FilterThreshold(Tail(s), thr)
         ELSE FilterThreshold(Tail(s), thr)

\* A wrong truncation, to compare with Take: nothing is cut.
TakeAll(s, k) == s

\* final_results[:top_k]
Take(s, k) == SubSeq(s, 1, IF Len(s) < k THEN Len(s) ELSE k)

\* VectorSearcher.search after the embedding call: scan, sort, filter, truncate
Search(kb, qv, top_k, thr) ==
    Take(FilterThreshold(SortMatches(AllMatches(kb, qv)), thr), top_k)

\* ------------------------------------------------------------- collaborators
\* The loaded knowledge base (db/knowledge_base_final.json), immutable.
KnowledgeBase ==
    << [id |-> 1, text |-> "A", vector |-> <<1, 0>>],
       [id |-> 2, text |-> "B", vector |-> <<0, 1>>] >>

\* The queries clients send, and the embedding the provider returns for each.
Queries == {"q0", "q1", "q2"}
Embed(q) ==
    IF q = "q0" THEN <<-1, 0>>
    ELSE IF q = "q1" THEN <<1, 0>>
    ELSE <<1, 1>>

\* The data store: item 1 has detail rows and a business name, item 2 has
\* neither (fetchall() returns no row, fetchone() returns None).
HasDetails(id) == id = 1
BusinessName(id) == IF id = 1 THEN "name1" ELSE ""

\* The context assembled from the detail rows of an item.
FormatContext(id) == "details:" \o ToString(id)

\* The fragments the answer model produces for a context.
GenFragments(ctx) == [i \in 1..MaxChunks |-> <<ctx \o "/frag" \o ToString(i)>>]

\* "".join(chunks)
RECURSIVE Join(_)
Join(chunks) == IF chunks = <<>> THEN <<>> ELSE Head(chunks) \o Join(Tail(chunks))

\* A wrong failure text, to compare with ErrorText: nothing is said.
SilentFailure == <<>>

\* f"Error: {str(e)}" of DashScopeChatBot.chat and chat_stream
ErrorText == <<"Error: provider exception text">>

\* The classifier's raw outputs, as character sequences.
RawLabels ==
    { <<"t", "1">>, <<"T", "1">>, <<" ", "t", "1", "\n">>,
      <<"t", "2">>, <<"t", "1", "1">> }

IsSpace(c) == c \in {" ", "\n"}
Lower(c) == IF c = "T" THEN "t" ELSE c

RECURSIVE LStrip(_)
LStrip(s) == IF s # <<>> /\ IsSpace(Head(s)) THEN LStrip(Tail(s)) ELSE s
RECURSIVE RStrip(_)
RStrip(s) ==
    IF s # <<>> /\ IsSpace(s[Len(s)]) THEN RStrip(SubSeq(s, 1, Len(s) - 1)) ELSE s
RECURSIVE StrOf(_)
StrOf(s) == IF s = <<>> THEN "" ELSE Head(s) \o StrOf(Tail(s))

\* content.strip().lower()
NormalizeLabel(raw) == LET t == RStrip(LStrip(raw)) IN StrOf([i \in 1..Len(t) |-> Lower(t[i])])

\* --------------------------------------------------------------- fixed texts
EngineNotFound == <<"engine: not found in the knowledge base">>
CliNotFound == <<"cli: not found in the knowledge base">>
CliTooMany == <<"cli: too many follow-ups">>

\* ------------------------------------------------------------ turn decisions
\* Two wrong counter updates, to compare with CounterAfter: the counter grows
\* whatever the label; the reset goes to 0.
CounterAlwaysGrows(c, label) == c + 1
CounterResetsToZero(c, label) == IF label = "t1" THEN c + 1 ELSE 0

\* A wrong counter law, to compare with CounterAfter: a follow-up counts
\* twice.
CounterGrowsByTwo(c, label) == IF label = "t1" THEN c + 2 ELSE 1

\* The follow-up counter after the intent step (`if intent_result == "t1"`).
CounterAfter(c, label) == IF label = "t1" THEN c + 1 ELSE 1

\* A wrong recovery, to compare with ClassifyOutcome: a failed classification
\* counts as a follow-up.
ClassifyFailureIsFollowup(raised, raw) ==
    IF raised THEN "t1" ELSE NormalizeLabel(raw)

\* The label of the intent step: the normalised output of the classifier, or
\* "t2" when the call raises (`except Exception: intent_result = "t2"`).
ClassifyOutcome(raised, raw) ==
    IF raised THEN "t2" ELSE NormalizeLabel(raw)

\* A wrong recovery, to compare with SearchOutcome: a failed search gives the
\* first entry of the knowledge base.
SearchFailureGivesFirst(raised, q) ==
    IF raised THEN <<[id |-> KnowledgeBase[1].id, text |-> KnowledgeBase[1].text,
                      similarity |-> [d |-> 1, n |-> 1]]>>
    ELSE Search(KnowledgeBase, Embed(q), TopK, Threshold)

\* The results of the search step: those of VectorSearcher.search, or none
\* when the embedding call or the search raises.
SearchOutcome(raised, q) ==
    IF raised THEN <<>>
    ELSE Search(KnowledgeBase, Embed(q), TopK, Threshold)

\* A wrong gate, to compare with RouteMode: `int_id <= 3`.
RouteModeGateOffByOne(n, c) ==
    IF n > 0 /\ c <= FollowupLimit
    THEN (IF n = 1 THEN "answer" ELSE "options")
    ELSE "defer"

\* A wrong routing rule, to compare with RouteMode: the branch is chosen from
\* the number of results alone.
RouteModeNoGate(n, c) ==
    IF n > 0
    THEN (IF n = 1 THEN "answer" ELSE "options")
    ELSE "defer"

\* The branch taken for num_results results and follow-up counter c.
RouteMode(n, c) ==
    IF n > 0 /\ c < FollowupLimit
    THEN (IF n = 1 THEN "answer" ELSE "options")
    ELSE "defer"

\* Wrong texts, to compare with DeferMessage: the two cases are exchanged.
DeferMessageExchanged(entry, n) ==
    IF n = 0 THEN CliTooMany
    ELSE IF entry = "cli" THEN CliNotFound ELSE EngineNotFound

\* The text of the else-branch: the engine has one text, the command-line
\* loop one for no result and one for too many follow-ups.
DeferMessage(entry, n) ==
    IF entry = "cli"
    THEN (IF n = 0 THEN CliNotFound ELSE CliTooMany)
    ELSE EngineNotFound

\* One entry of business_name_list: the row's id and name when the lookup
\* returns a row with a name, else the candidate's id and stored text.
OptionFor(r) ==
    IF BusinessName(r.id) # ""
    THEN [id |-> r.id, business_name |-> BusinessName(r.id)]
    ELSE [id |-> r.id, business_name |-> r.text]

FallbackOptionFor(r) == [id |-> r.id, business_name |-> r.text]

\* A wrong option list, to compare with StructuredOptions: a candidate
\* without a name is left out.
RECURSIVE NamedOptionsOnly(_, _)
NamedOptionsOnly(results, raised) ==
    IF results = <<>> THEN <<>>
    ELSE IF ~raised /\ BusinessName(Head(results).id) = ""
         THEN NamedOptionsOnly(Tail(results), raised)
         ELSE <<IF raised THEN FallbackOptionFor(Head(results))
                ELSE OptionFor(Head(results))>>
              \o NamedOptionsOnly(Tail(results), raised)

\* business_name_list: one lookup per candidate, in the order of the search
\* results; when the data store raises, the list is rebuilt from the texts.
StructuredOptions(results, raised) ==
    [i \in 1..Len(results) |->
        IF raised THEN FallbackOptionFor(results[i]) ELSE OptionFor(results[i])]

RECURSIVE DumpOptions(_)
DumpOptions(opts) ==
    IF opts = <<>> THEN <<>>
    ELSE <<"id=" \o ToString(Head(opts).id), "name=" \o Head(opts).business_name>>
         \o DumpOptions(Tail(opts))

\* A wrong serialisation, to compare with DumpPayload: every entry point
\* serialises the payload with its "type".
DumpPayloadWithType(entry, q, opts) ==
    <<"{type=options data=">>
    \o <<"old_query=" \o q, "options=">> \o DumpOptions(opts) \o <<"}">>

\* json.dumps of the options payload: handle_query serialises resp["data"],
\* handle_query_stream the payload with its "type", the command-line loop
\* the data with indent=4.
DumpPayload(entry, q, opts) ==
    (IF entry = "stream" THEN <<"{type=options data=">>
     ELSE IF entry = "cli" THEN <<"{indent4">>
     ELSE <<"{">>)
    \o <<"old_query=" \o q, "options=">> \o DumpOptions(opts) \o <<"}">>

\* The id header handle_query_stream yields before the answer.
IdHeader(id) == <<"json id=" \o ToString(id)>>

\* ---------------------------------------------------------------------- state
Threads == {1, 2}
SessionIds == {"a", "b"}
Objs == 1..MaxApiTurns

VARIABLES
    program,         \* "api" (api_server.py) or "cli" (main.py), fixed
    threads,         \* the threads that serve requests, fixed
    sids,            \* the session ids clients send, fixed
    queries,         \* the queries clients send, fixed
    entries,         \* the entry points clients use, fixed
    rawlabels,       \* the outputs the classifier gives, fixed
    maxfault,        \* the failure bound of the behaviour, fixed
    maxturn,         \* the turn bound of the behaviour, fixed
    SESSIONS,        \* session id -> QASessionState object (0: absent)
    nobj,            \* QASessionState objects created
    int_id,          \* object -> follow-up counter
    intent_history,  \* object -> list of entries
    nturn,           \* turns started
    nfault,          \* failures injected
    appended,        \* object -> entries ever appended to its history
    law,             \* object -> labels matched of LawLabels (-1: deviated)
    run,             \* object -> position of its last classified turn in the
                     \* run of follow-ups the turn belongs to (0: no turn yet)
    th,              \* thread -> the locals of the turn it runs
    db_file,         \* the knowledge-base file the searcher is constructed on
    knowledge_base,  \* VectorSearcher.knowledge_base, loaded at construction
    last_search,     \* the last call of VectorSearcher.search and its result
    item_call,       \* the last request GET /item/<item_id> and its response
    branch_call      \* the last streamed request POST /branch1/chat

vars == <<program, threads, sids, queries, entries, rawlabels, maxfault, maxturn, SESSIONS, nobj, int_id,
          intent_history, nturn, nfault, appended, law, run, th, db_file, knowledge_base, last_search,
          item_call, branch_call>>

\* What no step of a turn changes: the inputs of the behaviour and the state
\* of the searcher.
fixed == <<program, threads, sids, queries, entries, rawlabels, maxfault, maxturn,
           db_file, knowledge_base, last_search, item_call, branch_call>>

\* _load_knowledge_base: the list the file holds, or [] when the file is
\* missing (FileNotFoundError) or is no JSON (JSONDecodeError).
LoadKnowledgeBase(file) ==
    IF file.kind = "json" THEN file.content ELSE <<>>

\* No call of search was made yet.
NoCall == [state |-> "none"]

\* No request for an item was made yet.
NoItemCall == [state |-> "none"]

\* No request was made to /branch1/chat.
NoBranchCall == [pc |-> "none", events |-> <<>>, out |-> <<>>]

\* The labels and the counter trajectory of the counter law.
LawLabels == <<"t2", "t1", "t1", "t2", "t1">>
LawTrajectory == <<1, 2, 3, 1, 2>>

IdleLocals ==
    [pc |-> "idle", entry |-> "", sid |-> "", session |-> 0, query |-> "",
     turn |-> 0, intent_result |-> "", hist_seen |-> 0, c_before |-> 0,
     c_after |-> 0,
     searched |-> FALSE, search_results |-> <<>>, mode |-> "", context |-> "",
     fetches |-> 0, label_fetches |-> 0, labels_failed |-> 0, gens |-> 0, gen_i |-> 0,
     gen_over |-> FALSE,
     answer_chunks |-> <<>>, assistant_response |-> <<>>, rtype |-> "",
     old_query |-> "", options |-> <<>>, out |-> <<>>, events |-> <<>>,
     raised |-> {}]

\* A thread is free when it runs no turn.
Free(w) == th[w].pc \in {"idle", "done", "cancelled", "failed"}

InitState ==
    /\ SESSIONS = [s \in SessionIds |-> 0]
    /\ int_id = [o \in Objs |-> 0]
    /\ intent_history = [o \in Objs |-> <<>>]
    /\ nturn = 0
    /\ nfault = 0
    /\ appended = [o \in Objs |-> 0]
    /\ law = [o \in Objs |-> 0]
    /\ run = [o \in Objs |-> 0]
    /\ th = [w \in Threads |-> IdleLocals]

\* One caller at a time: the command-line loop, or the service with a single
\* request in flight.
Init ==
    /\ program \in {"api", "cli"}
    /\ threads = {1}
    /\ sids = {"a"}
    /\ queries = Queries
    /\ entries = IF program = "cli" THEN {"cli"} ELSE {"buffered", "stream"}
    /\ rawlabels = RawLabels
    /\ maxfault = MaxFaults
    /\ maxturn = MaxTurns
    /\ nobj = IF program = "cli" THEN 1 ELSE 0
    /\ db_file = [kind |-> "json", content |-> KnowledgeBase]
    /\ knowledge_base = LoadKnowledgeBase(db_file)
    /\ last_search = NoCall
    /\ item_call = NoItemCall
    /\ branch_call = NoBranchCall
    /\ InitState

\* Long sessions of one caller that repeats one query through one entry
\* point.
InitLong ==
    /\ program \in {"api", "cli"}
    /\ threads = {1}
    /\ sids = {"a"}
    /\ \E q \in Queries : queries = {q}
    /\ IF program = "cli" THEN entries = {"cli"}
       ELSE \E e \in {"buffered", "stream"} : entries = {e}
    /\ rawlabels = RawLabels
    /\ maxfault = MaxFaults
    /\ maxturn = MaxLongTurns
    /\ nobj = IF program = "cli" THEN 1 ELSE 0
    /\ db_file = [kind |-> "json", content |-> KnowledgeBase]
    /\ knowledge_base = LoadKnowledgeBase(db_file)
    /\ last_search = NoCall
    /\ item_call = NoItemCall
    /\ branch_call = NoBranchCall
    /\ InitState

\* The service with its thread pool: two requests in flight, of clients that
\* send one query; the classifier answers "t1" or "t2" and no collaborator
\* fails.
InitApi ==
    /\ program = "api"
    /\ threads = Threads
    /\ sids = SessionIds
    /\ \E q \in Queries : queries = {q}
    /\ entries = {"buffered", "stream"}
    /\ rawlabels = {<<"t", "1">>, <<"t", "2">>}
    /\ maxfault = 0
    /\ maxturn = MaxApiTurns
    /\ nobj = 0
    /\ db_file = [kind |-> "json", content |-> KnowledgeBase]
    /\ knowledge_base = LoadKnowledgeBase(db_file)
    /\ last_search = NoCall
    /\ item_call = NoItemCall
    /\ branch_call = NoBranchCall
    /\ InitState

\* -------------------------------------------------------------------- helpers
Stream(w) == th[w].entry = "stream"

ContentEvent(frag) == [type |-> "content", answer |-> frag]

\* `yield frag` of handle_query_stream, forwarded by generate_stream as a
\* content event when the fragment is not empty; the generator is suspended
\* at pc `at`.
Yielded(l, frag, at) ==
    [l EXCEPT !.out = Append(@, frag),
              !.events = IF frag # <<>> THEN Append(@, ContentEvent(frag)) ELSE @,
              !.pc = at]

YieldPcs == {"y_meta", "y_id", "y_chunk", "y_opts", "y_defer"}

ResumeTarget(pc) ==
    IF pc = "y_meta" THEN "classify"
    ELSE IF pc = "y_id" THEN "ctx"
    ELSE IF pc = "y_chunk" THEN "gen"
    ELSE "commit"

\* A collaborator call raises only while the failure budget lasts.
MayRaise(raised) ==
    /\ raised => nfault < maxfault
    /\ nfault' = IF raised THEN nfault + 1 ELSE nfault

\* The collaborator calls of the turn that have raised so far.
Noted(s, raised, call) == IF raised THEN s \cup {call} ELSE s

Entry(role, content, turn, n) ==
    [role |-> role, content |-> content, turn |-> turn, n |-> n]

\* intent_history[-10:]
LastEntries(h) ==
    IF Len(h) > HistoryCap THEN SubSeq(h, Len(h) - HistoryCap + 1, Len(h)) ELSE h

\* The trim of the command-line loop: `if len(h) > 10: h = h[-10:]`.
TrimHistory(h) == LastEntries(h)

\* -------------------------------------------------------------------- actions
\* A request arrives at /chat (or a line is read by the command-line loop).
Begin(w) ==
    /\ w \in threads
    /\ Free(w)
    /\ nturn < maxturn
    /\ nturn' = nturn + 1
    /\ \E q \in queries :
          IF program = "cli"
          THEN th' = [th EXCEPT ![w] =
                        [IdleLocals EXCEPT !.pc = "classify", !.entry = "cli",
                                           !.session = 1, !.query = q,
                                           !.turn = nturn + 1]]
          ELSE \E sid \in sids, entry \in entries :
                  th' = [th EXCEPT ![w] =
                           [IdleLocals EXCEPT !.pc = "lookup", !.entry = entry,
                                              !.sid = sid, !.query = q,
                                              !.turn = nturn + 1]]
    /\ UNCHANGED <<fixed, SESSIONS, nobj, int_id, intent_history, nfault,
                   appended, law, run>>

\* chat: `if session_id not in SESSIONS`
Lookup(w) ==
    /\ th[w].pc = "lookup"
    /\ th' = [th EXCEPT ![w].pc =
                 IF SESSIONS[th[w].sid] = 0 THEN "insert" ELSE "get"]
    /\ UNCHANGED <<fixed, SESSIONS, nobj, int_id, intent_history, nturn, nfault,
                   appended, law, run>>

\* A wrong insertion, to compare with Insert: every session id is bound to one
\* and the same QASessionState object.
InsertShared(w) ==
    /\ th[w].pc = "insert"
    /\ nobj < MaxApiTurns
    /\ nobj' = nobj + 1
    /\ SESSIONS' = [SESSIONS EXCEPT ![th[w].sid] = 1]
    /\ th' = [th EXCEPT ![w].pc = "get"]
    /\ UNCHANGED <<fixed, int_id, intent_history, nturn, nfault, appended, law, run>>

\* chat: `SESSIONS[session_id] = QASessionState()`
Insert(w) ==
    /\ th[w].pc = "insert"
    /\ nobj < MaxApiTurns
    /\ nobj' = nobj + 1
    /\ SESSIONS' = [SESSIONS EXCEPT ![th[w].sid] = nobj + 1]
    /\ th' = [th EXCEPT ![w].pc = "get"]
    /\ UNCHANGED <<fixed, int_id, intent_history, nturn, nfault, appended, law, run>>

\* chat: `session = SESSIONS[session_id]`; a streamed request then sends the
\* metadata event, a buffered one calls handle_query.
GetSession(w) ==
    /\ th[w].pc = "get"
    /\ th' = [th EXCEPT ![w] =
                 IF Stream(w)
                 THEN [@ EXCEPT !.session = SESSIONS[th[w].sid],
                                !.events = <<[type |-> "metadata", answer |-> <<>>]>>,
                                !.pc = "y_meta"]
                 ELSE [@ EXCEPT !.session = SESSIONS[th[w].sid],
                                !.pc = "classify"]]
    /\ UNCHANGED <<fixed, SESSIONS, nobj, int_id, intent_history, nturn, nfault,
                   appended, law, run>>

\* A wrong consumer, to compare with Resume: it asks for no fragment after a
\* generated one, and does not close the stream either.
ResumeStalls(w) ==
    /\ th[w].pc \in YieldPcs \ {"y_chunk"}
    /\ th' = [th EXCEPT ![w].pc = ResumeTarget(th[w].pc)]
    /\ UNCHANGED <<fixed, SESSIONS, nobj, int_id, intent_history, nturn, nfault,
                   appended, law, run>>

\* The consumer asks for the next fragment: the generator runs on.
Resume(w) ==
    /\ th[w].pc \in YieldPcs
    /\ th' = [th EXCEPT ![w].pc = ResumeTarget(th[w].pc)]
    /\ UNCHANGED <<fixed, SESSIONS, nobj, int_id, intent_history, nturn, nfault,
                   appended, law, run>>

\* The consumer stops iterating (client disconnect): the suspended generator
\* is closed, GeneratorExit is no Exception and nothing after the yield runs.
Cancel(w) ==
    /\ th[w].pc \in YieldPcs
    /\ th' = [th EXCEPT ![w].pc = "cancelled"]
    /\ UNCHANGED <<fixed, SESSIONS, nobj, int_id, intent_history, nturn, nfault,
                   appended, law, run>>

\* Step 1: the classifier is called with the session's history; a failure of
\* the call gives the label "t2".
Classify(w) ==
    /\ th[w].pc = "classify"
    /\ \E raised \in BOOLEAN, raw \in rawlabels :
          /\ MayRaise(raised)
          /\ th' = [th EXCEPT ![w] =
                      [@ EXCEPT !.intent_result = ClassifyOutcome(raised, raw),
                                !.raised = Noted(@, raised, "classify"),
                                !.hist_seen = Len(intent_history[th[w].session]),
                                !.pc = "update"]]
    /\ UNCHANGED <<fixed, SESSIONS, nobj, int_id, intent_history, nturn,
                   appended, law, run>>

\* The position of a turn in its run of follow-ups, from the position of the
\* turn before it: a turn labelled "t1" continues the run, and a turn with
\* any other label, or the first turn of a session, starts one.
RunAfter(r, label) == IF label = "t1" /\ r >= 1 THEN r + 1 ELSE 1

\* The follow-up counter is updated from the label.
UpdateCounter(w) ==
    LET o == th[w].session
        c == CounterAfter(int_id[o], th[w].intent_result)
    IN /\ th[w].pc = "update"
       /\ int_id' = [int_id EXCEPT ![o] = c]
       /\ law' = [law EXCEPT ![o] =
                     IF /\ @ >= 0
                        /\ @ < Len(LawLabels)
                        /\ LawLabels[@ + 1] = th[w].intent_result
                     THEN @ + 1 ELSE -1]
       /\ run' = [run EXCEPT ![o] = RunAfter(@, th[w].intent_result)]
       /\ th' = [th EXCEPT ![w] = [@ EXCEPT !.c_before = int_id[o],
                                            !.c_after = c, !.pc = "search"]]
       /\ UNCHANGED <<fixed, SESSIONS, nobj, intent_history, nturn, nfault,
                      appended>>

\* Step 2: the query is embedded and the knowledge base searched; a failure
\* gives no result.
SearchStep(w) ==
    /\ th[w].pc = "search"
    /\ \E raised \in BOOLEAN :
          /\ MayRaise(raised)
          /\ th' = [th EXCEPT ![w] =
                      [@ EXCEPT !.search_results = SearchOutcome(raised, th[w].query),
                                !.raised = Noted(@, raised, "search"),
                                !.searched = TRUE,
                                !.pc = "route"]]
    /\ UNCHANGED <<fixed, SESSIONS, nobj, int_id, intent_history, nturn,
                   appended, law, run>>

\* A wrong routing step, to compare with Route: the branch is chosen from the
\* counter as it was before the update of this turn.
RouteOnOldCounter(w) ==
    LET l == th[w]
        n == Len(l.search_results)
        m == RouteMode(n, l.c_before)
        msg == DeferMessage(l.entry, n)
    IN /\ l.pc = "route"
       /\ th' = [th EXCEPT ![w] =
                   IF m = "answer"
                   THEN IF Stream(w)
                        THEN Yielded([l EXCEPT !.mode = m],
                                     IdHeader(l.search_results[1].id), "y_id")
                        ELSE [l EXCEPT !.mode = m, !.pc = "ctx"]
                   ELSE IF m = "options"
                   THEN [l EXCEPT !.mode = m, !.pc = "labels"]
                   ELSE IF Stream(w)
                        THEN Yielded([l EXCEPT !.mode = m, !.rtype = "answer",
                                               !.assistant_response = msg],
                                     msg, "y_defer")
                        ELSE [l EXCEPT !.mode = m, !.rtype = "answer",
                                       !.assistant_response = msg,
                                       !.pc = "commit"]]
       /\ UNCHANGED <<fixed, SESSIONS, nobj, int_id, intent_history, nturn,
                      nfault, appended, law, run>>

\* Step 3: the branch is chosen from the number of results and the session's
\* counter.  The streamed answer branch yields the id header first; the
\* else-branch sets its fixed text.
Route(w) ==
    LET l == th[w]
        n == Len(l.search_results)
        m == RouteMode(n, int_id[l.session])
        msg == DeferMessage(l.entry, n)
    IN /\ l.pc = "route"
       /\ th' = [th EXCEPT ![w] =
                   IF m = "answer"
                   THEN IF Stream(w)
                        THEN Yielded([l EXCEPT !.mode = m],
                                     IdHeader(l.search_results[1].id), "y_id")
                        ELSE [l EXCEPT !.mode = m, !.pc = "ctx"]
                   ELSE IF m = "options"
                   THEN [l EXCEPT !.mode = m, !.pc = "labels"]
                   ELSE IF Stream(w)
                        THEN Yielded([l EXCEPT !.mode = m, !.rtype = "answer",
                                               !.assistant_response = msg],
                                     msg, "y_defer")
                        ELSE [l EXCEPT !.mode = m, !.rtype = "answer",
                                       !.assistant_response = msg,
                                       !.pc = "commit"]]
       /\ UNCHANGED <<fixed, SESSIONS, nobj, int_id, intent_history, nturn,
                      nfault, appended, law, run>>

\* The context of the single match: the detail rows of the item, formatted,
\* or the match's stored text when there is no row or the data store raises
\* (_get_context_for_item, and the same code inline in handle_query and in
\* the command-line loop).
ContextFor(result, raised) ==
    IF ~raised /\ HasDetails(result.id) THEN FormatContext(result.id) ELSE result.text

\* Answer branch: one detail fetch gives the context.
FetchContext(w) ==
    /\ th[w].pc = "ctx"
    /\ \E raised \in BOOLEAN :
          /\ MayRaise(raised)
          /\ th' = [th EXCEPT ![w] =
                      [@ EXCEPT !.context = ContextFor(th[w].search_results[1], raised),
                                !.fetches = @ + 1,
                                !.raised = Noted(@, raised, "fetch"),
                                !.pc = IF Stream(w) THEN "fetch2" ELSE "gen"]]
    /\ UNCHANGED <<fixed, SESSIONS, nobj, int_id, intent_history, nturn,
                   appended, law, run>>

\* handle_query_stream runs the detail query a second time for its log
\* record, in a try with no except clause: a failure reaches the outer
\* handler of the generator.
FetchAgain(w) ==
    /\ th[w].pc = "fetch2"
    /\ \E raised \in BOOLEAN :
          /\ MayRaise(raised)
          /\ th' = [th EXCEPT ![w] =
                      [@ EXCEPT !.fetches = @ + 1,
                                !.raised = Noted(@, raised, "fetch2"),
                                !.pc = IF raised THEN "except" ELSE "gen"]]
    /\ UNCHANGED <<fixed, SESSIONS, nobj, int_id, intent_history, nturn,
                   appended, law, run>>

\* str(e) of the AttributeError raised by `self.logger.error(...)`
HandlerErrorText == <<"'QAEngine' object has no attribute 'logger'">>

\* A wrong end of a failed stream, to compare with StreamExcept: the done
\* event is sent after the error event.
StreamExceptThenDone(w) ==
    /\ th[w].pc = "except"
    /\ th' = [th EXCEPT ![w] =
                 [@ EXCEPT !.events = @ \o <<[type |-> "error",
                                              answer |-> HandlerErrorText],
                                             [type |-> "done", answer |-> <<>>]>>,
                           !.pc = "failed"]]
    /\ UNCHANGED <<fixed, SESSIONS, nobj, int_id, intent_history, nturn, nfault,
                   appended, law, run>>

\* The outer handler of handle_query_stream uses self.logger, which QAEngine
\* never sets: the handler raises, the generator ends with that exception and
\* generate_stream sends it as an error event.
StreamExcept(w) ==
    /\ th[w].pc = "except"
    /\ th' = [th EXCEPT ![w] =
                 [@ EXCEPT !.events = Append(@, [type |-> "error",
                                                 answer |-> HandlerErrorText]),
                           !.pc = "failed"]]
    /\ UNCHANGED <<fixed, SESSIONS, nobj, int_id, intent_history, nturn, nfault,
                   appended, law, run>>

\* handle_query: answer_generator.chat returns the whole answer, or the text
\* of the provider's exception.
GenCall(w) ==
    /\ th[w].pc = "gen"
    /\ th[w].entry = "buffered"
    /\ \E raised \in BOOLEAN :
          /\ MayRaise(raised)
          /\ th' = [th EXCEPT ![w] =
                      [@ EXCEPT !.gens = @ + 1,
                                !.raised = Noted(@, raised, "gen"),
                                !.rtype = "answer",
                                !.assistant_response =
                                    IF raised THEN ErrorText
                                    ELSE Join(GenFragments(th[w].context)),
                                !.pc = "commit"]]
    /\ UNCHANGED <<fixed, SESSIONS, nobj, int_id, intent_history, nturn,
                   appended, law, run>>

\* chat_stream produces the next fragment, or, when the provider raises, the
\* text of the exception as its last fragment.  handle_query_stream collects
\* and yields it; the command-line loop collects and prints it.
GenChunk(w) ==
    LET l == th[w] IN
    /\ l.pc = "gen"
    /\ l.entry \in {"stream", "cli"}
    /\ ~l.gen_over
    /\ l.gen_i < MaxChunks
    /\ \E raised \in BOOLEAN :
          LET chunk == IF raised THEN ErrorText
                       ELSE GenFragments(l.context)[l.gen_i + 1]
              got == [l EXCEPT !.gens = IF l.gen_i = 0 THEN @ + 1 ELSE @,
                               !.gen_i = IF raised THEN @ ELSE @ + 1,
                               !.gen_over = raised,
                               !.raised = Noted(@, raised, "gen"),
                               !.answer_chunks = Append(@, chunk)]
          IN /\ MayRaise(raised)
             /\ th' = [th EXCEPT ![w] =
                         IF Stream(w) THEN Yielded(got, chunk, "y_chunk") ELSE got]
    /\ UNCHANGED <<fixed, SESSIONS, nobj, int_id, intent_history, nturn,
                   appended, law, run>>

\* A wrong end of the generation, to compare with GenEnd: the answer is the
\* join of everything the turn has yielded, the id header included.
GenEndWithHeader(w) ==
    LET l == th[w] IN
    /\ l.pc = "gen"
    /\ l.entry \in {"stream", "cli"}
    /\ l.gen_over \/ l.gen_i = MaxChunks
    /\ th' = [th EXCEPT ![w] =
                 [l EXCEPT !.rtype = "answer",
                           !.assistant_response =
                               IF Stream(w) THEN Join(l.out) ELSE Join(l.answer_chunks),
                           !.pc = "commit"]]
    /\ UNCHANGED <<fixed, SESSIONS, nobj, int_id, intent_history, nturn, nfault,
                   appended, law, run>>

\* chat_stream is exhausted: the answer is the join of the collected chunks.
GenEnd(w) ==
    LET l == th[w] IN
    /\ l.pc = "gen"
    /\ l.entry \in {"stream", "cli"}
    /\ l.gen_over \/ l.gen_i = MaxChunks
    /\ th' = [th EXCEPT ![w] =
                 [l EXCEPT !.rtype = "answer",
                           !.assistant_response = Join(l.answer_chunks),
                           !.pc = "commit"]]
    /\ UNCHANGED <<fixed, SESSIONS, nobj, int_id, intent_history, nturn, nfault,
                   appended, law, run>>

\* Options branch: the labels of the candidates are looked up and the
\* options payload is built; the streamed branch yields its serialisation.
FetchLabels(w) ==
    LET l == th[w] IN
    /\ l.pc = "labels"
    /\ \E j \in 0..Len(l.search_results) :
          \* j: the candidate whose lookup raises (0: none does)
          LET raised == j > 0
              opts == StructuredOptions(l.search_results, raised)
              text == DumpPayload(l.entry, l.query, opts)
              got == [l EXCEPT !.label_fetches = @ + 1,
                               !.labels_failed = j,
                               !.raised = Noted(@, raised, "labels"),
                               !.rtype = "options",
                               !.old_query = l.query,
                               !.options = opts,
                               !.assistant_response = text]
          IN /\ MayRaise(raised)
             /\ th' = [th EXCEPT ![w] =
                         IF Stream(w) THEN Yielded(got, text, "y_opts")
                         ELSE [got EXCEPT !.pc = "commit"]]
    /\ UNCHANGED <<fixed, SESSIONS, nobj, int_id, intent_history, nturn,
                   appended, law, run>>

\* The engine appends the user entry of the turn.
CommitUser(w) ==
    LET l == th[w]
        o == l.session
    IN /\ l.pc = "commit"
       /\ l.entry # "cli"
       /\ intent_history' =
             [intent_history EXCEPT ![o] =
                 Append(@, Entry("user", <<l.query>>, l.turn, appended[o] + 1))]
       /\ appended' = [appended EXCEPT ![o] = @ + 1]
       /\ th' = [th EXCEPT ![w].pc = "commit2"]
       /\ UNCHANGED <<fixed, SESSIONS, nobj, int_id, nturn, nfault, law, run>>

\* The engine appends the assistant entry of the turn; handle_query returns,
\* handle_query_stream ends and generate_stream sends the done event.
CommitAssistant(w) ==
    LET l == th[w]
        o == l.session
    IN /\ l.pc = "commit2"
       /\ intent_history' =
             [intent_history EXCEPT ![o] =
                 Append(@, Entry("assistant", l.assistant_response, l.turn,
                                 appended[o] + 1))]
       /\ appended' = [appended EXCEPT ![o] = @ + 1]
       /\ th' = [th EXCEPT ![w] =
                   [l EXCEPT !.events =
                                 IF Stream(w)
                                 THEN Append(@, [type |-> "done", answer |-> <<>>])
                                 ELSE @,
                             !.pc = "done"]]
       /\ UNCHANGED <<fixed, SESSIONS, nobj, int_id, nturn, nfault, law, run>>

\* The command-line loop appends the question and the answer as two plain
\* strings, trims the list to its last 10 entries when it is longer, and
\* then appends the question and the answer again as two role entries.
CliCommit(w) ==
    LET l == th[w]
        o == l.session
        k == appended[o]
        h1 == intent_history[o]
                 \o << Entry("str", <<l.query>>, l.turn, k + 1),
                       Entry("str", l.assistant_response, l.turn, k + 2) >>
        h2 == TrimHistory(h1)
    IN /\ l.pc = "commit"
       /\ l.entry = "cli"
       /\ intent_history' =
             [intent_history EXCEPT ![o] =
                 h2 \o << Entry("user", <<l.query>>, l.turn, k + 3),
                          Entry("assistant", l.assistant_response, l.turn, k + 4) >>]
       /\ appended' = [appended EXCEPT ![o] = k + 4]
       /\ th' = [th EXCEPT ![w].pc = "done"]
       /\ UNCHANGED <<fixed, SESSIONS, nobj, int_id, nturn, nfault, law, run>>

\* ------------------------------------------------------------- specifications
Step(w) ==
    \/ Begin(w)
    \/ Lookup(w)
    \/ Insert(w)
    \/ GetSession(w)
    \/ Resume(w)
    \/ Cancel(w)
    \/ Classify(w)
    \/ UpdateCounter(w)
    \/ SearchStep(w)
    \/ Route(w)
    \/ FetchContext(w)
    \/ FetchAgain(w)
    \/ StreamExcept(w)
    \/ GenCall(w)
    \/ GenChunk(w)
    \/ GenEnd(w)
    \/ FetchLabels(w)
    \/ CommitUser(w)
    \/ CommitAssistant(w)

Next == \E w \in Threads : Step(w) \/ CliCommit(w)

\* One turn at a time: the command-line loop, or the service with one
\* request in flight.
Spec == Init /\ [][Next]_vars

\* The steps of the service when no collaborator fails.
StepApi(w) ==
    \/ Begin(w)
    \/ Lookup(w)
    \/ Insert(w)
    \/ GetSession(w)
    \/ Resume(w)
    \/ Cancel(w)
    \/ Classify(w)
    \/ UpdateCounter(w)
    \/ SearchStep(w)
    \/ Route(w)
    \/ FetchContext(w)
    \/ FetchAgain(w)
    \/ GenCall(w)
    \/ GenChunk(w)
    \/ GenEnd(w)
    \/ FetchLabels(w)
    \/ CommitUser(w)
    \/ CommitAssistant(w)

NextApi == \E w \in Threads : StepApi(w)

\* Long sessions, one caller.
SpecLong == InitLong /\ [][Next]_vars

\* The service with two requests in flight on its thread pool.
SpecApi == InitApi /\ [][NextApi]_vars

\* ---------------------------------------------------------------- the searcher
\* The vectors an entry of a knowledge base may hold: <<>> is an entry with no
\* or an empty 'vector', <<0, 0>> a vector of norm zero.
EntryVectors == {<<>>, <<0, 0>>, <<1, 0>>, <<2, 0>>, <<0, 1>>, <<1, 1>>, <<-1, 0>>}

\* The vectors the embedding provider may return for a query.
QueryVectors == {<<0, 0>>, <<1, 0>>, <<0, 1>>, <<1, 1>>, <<-1, 0>>}

\* The thresholds of a call: -1, 0, 0.5, 1/sqrt(2) and 1.
Thresholds ==
    {[d |-> -1, n |-> 1], [d |-> 0, n |-> 1], Threshold, [d |-> 1, n |-> 2],
     [d |-> 1, n |-> 1]}

\* The knowledge bases a file may hold: up to MaxEntries entries, entry i with
\* id i.
KnowledgeBases ==
    UNION { { [i \in 1..n |-> [id |-> i, text |-> "e" \o ToString(i),
                               vector |-> f[i]]] :
              f \in [1..n -> EntryVectors] } : n \in 0..MaxEntries }

\* The calls of search: the vector the provider returns for the query, top_k
\* and the threshold.
SearchCalls ==
    {[state |-> "called", query_vector |-> qv, top_k |-> k,
      similarity_threshold |-> thr] :
        qv \in QueryVectors, k \in 1..MaxTopK, thr \in Thresholds}

\* The files a searcher may be constructed on: none at the path, one that is
\* no JSON, or one that holds a knowledge base.
DbFiles ==
    {[kind |-> "missing"], [kind |-> "malformed"]}
       \cup {[kind |-> "json", content |-> kb] : kb \in KnowledgeBases}

\* A searcher constructed on a knowledge-base file is called, and called again
\* with the same arguments; no turn runs.
InitSearch ==
    /\ program = "api"
    /\ threads = {}
    /\ sids = {}
    /\ queries = {}
    /\ entries = {}
    /\ rawlabels = {}
    /\ maxfault = 0
    /\ maxturn = 0
    /\ nobj = 0
    /\ db_file \in DbFiles
    /\ knowledge_base = LoadKnowledgeBase(db_file)
    /\ last_search \in SearchCalls
    /\ item_call = NoItemCall
    /\ branch_call = NoBranchCall
    /\ InitState

\* A wrong search, to compare with SearchCall: the entries scanned are taken
\* out of the knowledge base.
SearchCallConsuming ==
    /\ last_search.state = "called"
    /\ last_search' =
          [state |-> "returned", query_vector |-> last_search.query_vector,
           top_k |-> last_search.top_k,
           similarity_threshold |-> last_search.similarity_threshold,
           final_results |-> Search(knowledge_base, last_search.query_vector,
                                    last_search.top_k,
                                    last_search.similarity_threshold)]
    /\ knowledge_base' = <<>>
    /\ UNCHANGED <<program, threads, sids, queries, entries, rawlabels, maxfault,
                   maxturn, SESSIONS, nobj, int_id, intent_history, nturn,
                   nfault, appended, law, run, th, db_file, item_call,
                   branch_call>>

\* VectorSearcher.search scans the knowledge base and returns.
SearchCall ==
    /\ last_search.state = "called"
    /\ last_search' =
          [state |-> "returned", query_vector |-> last_search.query_vector,
           top_k |-> last_search.top_k,
           similarity_threshold |-> last_search.similarity_threshold,
           final_results |-> Search(knowledge_base, last_search.query_vector,
                                    last_search.top_k,
                                    last_search.similarity_threshold)]
    /\ UNCHANGED <<program, threads, sids, queries, entries, rawlabels, maxfault,
                   maxturn, SESSIONS, nobj, int_id, intent_history, nturn,
                   nfault, appended, law, run, th, db_file, knowledge_base,
                   item_call, branch_call>>

\* VectorSearcher.search is called again with the arguments of the first call
\* (the provider returns the same query vector).
SearchRepeat ==
    /\ last_search.state = "returned"
    /\ last_search' =
          [state |-> "repeated", query_vector |-> last_search.query_vector,
           top_k |-> last_search.top_k,
           similarity_threshold |-> last_search.similarity_threshold,
           final_results |-> last_search.final_results,
           second_results |-> Search(knowledge_base, last_search.query_vector,
                                     last_search.top_k,
                                     last_search.similarity_threshold)]
    /\ UNCHANGED <<program, threads, sids, queries, entries, rawlabels, maxfault,
                   maxturn, SESSIONS, nobj, int_id, intent_history, nturn,
                   nfault, appended, law, run, th, db_file, knowledge_base,
                   item_call, branch_call>>

NextSearch == SearchCall \/ SearchRepeat

\* Calls of search on every small knowledge base.
SpecSearch == InitSearch /\ [][NextSearch]_vars

\* ----------------------------------------------------------------- item API
\* What the database holds about the item asked for: no row of items_info_,
\* a row of a type other than the two handled, a row of type "no form" with
\* its documents, or a row of type "form" with the names of its annexes
\* ("": no name, "bad-name": not a legal table name, "t1": a table) and
\* whether reading an annex table raises.
AnnexNames == {"", "bad-name", "t1"}

ItemRows ==
    {[type |-> "absent"], [type |-> "other"]}
       \cup {[type |-> "nofill", docs |-> [i \in 1..n |-> "doc"]] : n \in 0..MaxRows}
       \cup {[type |-> "fill", annexes |-> a, table_raises |-> b] :
                a \in UNION {[1..n -> AnnexNames] : n \in 0..MaxRows},
                b \in BOOLEAN}

\* Where the request fails: nowhere, in pymysql.connect, in the query of the
\* item's type, in the query of its documents or annexes, or in jsonify.
ItemFailures == {"none", "connect", "type_query", "rows_query", "jsonify"}

\* `table_name.replace('_', '').isalnum()`
LegalTableName(name) == name = "t1"

\* The loop over annex_results: an annex without a name is listed without a
\* table, one with an illegal name is skipped, one whose table cannot be read
\* is listed with an empty table.
RECURSIVE AnnexList(_, _)
AnnexList(annexes, table_raises) ==
    IF annexes = <<>> THEN <<>>
    ELSE LET name == Head(annexes)
             rest == AnnexList(Tail(annexes), table_raises)
         IN IF name = ""
            THEN <<[annex_name |-> name, table |-> "unset"]>> \o rest
            ELSE IF ~LegalTableName(name)
            THEN rest
            ELSE <<[annex_name |-> name,
                    table |-> IF table_raises THEN "empty" ELSE "rows"]>> \o rest

\* get_item_data: every exception is caught and answered with [].
get_item_data(row, failure) ==
    IF failure \in {"connect", "type_query"} THEN <<>>
    ELSE IF row.type = "absent" THEN <<>>
    ELSE IF row.type = "nofill"
    THEN IF failure = "rows_query" THEN <<>>
         ELSE [i \in 1..Len(row.docs) |-> [doc_name |-> row.docs[i]]]
    ELSE IF row.type = "fill"
    THEN IF failure = "rows_query" THEN <<>>
         ELSE AnnexList(row.annexes, row.table_raises)
    ELSE <<>>

\* get_item: 404 on an empty result, 200 with the data, 500 on an exception
\* that reaches it.
get_item(row, failure) ==
    LET result == get_item_data(row, failure)
    IN IF result = <<>> THEN [status |-> 404, body |-> "message"]
       ELSE IF failure = "jsonify" THEN [status |-> 500, body |-> "error"]
       ELSE [status |-> 200, body |-> result]

ItemCalls ==
    {[state |-> "called", row |-> r, failure |-> f] :
        r \in ItemRows, f \in ItemFailures}

\* One request GET /item/<item_id> against a database; no turn runs.
InitItem ==
    /\ program = "api" /\ threads = {} /\ sids = {} /\ queries = {} /\ entries = {}
    /\ rawlabels = {} /\ maxfault = 0 /\ maxturn = 0 /\ nobj = 0
    /\ db_file = [kind |-> "json", content |-> KnowledgeBase]
    /\ knowledge_base = LoadKnowledgeBase(db_file)
    /\ last_search = NoCall
    /\ item_call \in ItemCalls
    /\ branch_call = NoBranchCall
    /\ InitState

\* The request is served.
ItemCall ==
    /\ item_call.state = "called"
    /\ item_call' =
          [state |-> "returned", row |-> item_call.row,
           failure |-> item_call.failure,
           response |-> get_item(item_call.row, item_call.failure)]
    /\ UNCHANGED <<program, threads, sids, queries, entries, rawlabels, maxfault,
                   maxturn, SESSIONS, nobj, int_id, intent_history, nturn,
                   nfault, appended, law, run, th, db_file, knowledge_base,
                   last_search, branch_call>>

NextItem == ItemCall

SpecItem == InitItem /\ [][NextItem]_vars

\* ------------------------------------------------------------ consumed streams
\* Streamed requests of one client whose consumer iterates to the end: the
\* stream is never closed early, and every step that can run does run (the
\* generator runs whenever the consumer asks for the next fragment, and the
\* generation stream has at most MaxChunks fragments).
InitLive ==
    /\ program = "api"
    /\ threads = {1}
    /\ sids = {"a"}
    /\ queries = Queries
    /\ entries = {"stream"}
    /\ rawlabels = {<<"t", "1">>, <<"t", "2">>}
    /\ maxfault = MaxFaults
    /\ maxturn = MaxLiveTurns
    /\ nobj = 0
    /\ db_file = [kind |-> "json", content |-> KnowledgeBase]
    /\ knowledge_base = LoadKnowledgeBase(db_file)
    /\ last_search = NoCall
    /\ item_call = NoItemCall
    /\ branch_call = NoBranchCall
    /\ InitState

StepLive(w) ==
    \/ Begin(w)
    \/ Lookup(w)
    \/ Insert(w)
    \/ GetSession(w)
    \/ Resume(w)
    \/ Classify(w)
    \/ UpdateCounter(w)
    \/ SearchStep(w)
    \/ Route(w)
    \/ FetchContext(w)
    \/ FetchAgain(w)
    \/ StreamExcept(w)
    \/ GenChunk(w)
    \/ GenEnd(w)
    \/ FetchLabels(w)
    \/ CommitUser(w)
    \/ CommitAssistant(w)

NextLive == \E w \in Threads : StepLive(w)

SpecLive == InitLive /\ [][NextLive]_vars /\ WF_vars(NextLive)

\* ------------------------------------------------------------ /branch1/chat
\* What the provider's stream gives for a request: up to MaxChunks pieces,
\* some of them empty.
BranchPieces == UNION {[1..n -> {<<>>, <<"piece">>}] : n \in 0..MaxChunks}

\* fetch_data_by_id returns the rows, raises ValueError when the table names
\* are not configured, or raises on a database error.
BranchFetchOutcomes == {"ok", "unconfigured", "db_error"}

\* f'json{{"id":"{item_id}"}}\n'
BranchIdHeader(id) == <<"json id=" \o ToString(id)>>

\* f"处理失败: {str(e)}"
BranchFailureText(outcome) ==
    IF outcome = "unconfigured" THEN <<"failed: table names not configured">>
    ELSE <<"failed: database query failed">>

\* A streamed request: the item asked for, the outcome of the data fetch, the
\* pieces of the provider's stream and the piece at which the provider
\* raises (0: it does not).
BranchCalls ==
    {[pc |-> "called", item_id |-> id, fetch |-> f, pieces |-> ps,
      raise_at |-> k, i |-> 0, gens |-> 0, out |-> <<>>, events |-> <<>>] :
        id \in {1, 2}, f \in BranchFetchOutcomes, ps \in BranchPieces,
        k \in 0..MaxChunks + 1}

BranchYieldPcs == {"y_meta", "y_id", "y_chunk", "y_fail", "y_last"}

BranchResumeTarget(pc) ==
    IF pc = "y_meta" THEN "fetch"
    ELSE IF pc \in {"y_id", "y_chunk"} THEN "gen"
    ELSE "end"

\* `yield chunk` of Branch1Engine.handle_query_stream, forwarded by
\* generate_stream as a content event when the chunk is not empty.
BranchYielded(b, frag, at) ==
    [b EXCEPT !.out = Append(@, frag),
              !.events = IF frag # <<>> THEN Append(@, ContentEvent(frag)) ELSE @,
              !.pc = at]

\* generate_stream sends the metadata event first.
BranchStart ==
    /\ branch_call.pc = "called"
    /\ branch_call' =
          [branch_call EXCEPT !.events = <<[type |-> "metadata", answer |-> <<>>]>>,
                              !.pc = "y_meta"]
    /\ UNCHANGED <<program, threads, sids, queries, entries, rawlabels, maxfault,
                   maxturn, SESSIONS, nobj, int_id, intent_history, nturn,
                   nfault, appended, law, run, th, db_file, knowledge_base,
                   last_search, item_call>>

\* The consumer asks for the next event.
BranchResume ==
    /\ branch_call.pc \in BranchYieldPcs
    /\ branch_call' = [branch_call EXCEPT !.pc = BranchResumeTarget(@)]
    /\ UNCHANGED <<program, threads, sids, queries, entries, rawlabels, maxfault,
                   maxturn, SESSIONS, nobj, int_id, intent_history, nturn,
                   nfault, appended, law, run, th, db_file, knowledge_base,
                   last_search, item_call>>

\* The consumer closes the stream.
BranchCancel ==
    /\ branch_call.pc \in BranchYieldPcs
    /\ branch_call' = [branch_call EXCEPT !.pc = "cancelled"]
    /\ UNCHANGED <<program, threads, sids, queries, entries, rawlabels, maxfault,
                   maxturn, SESSIONS, nobj, int_id, intent_history, nturn,
                   nfault, appended, law, run, th, db_file, knowledge_base,
                   last_search, item_call>>

\* A wrong first step, to compare with BranchFetch: the id header is yielded
\* whatever the fetch gives, and the failure text after it.
BranchFetchHeaderFirst ==
    /\ branch_call.pc = "fetch"
    /\ branch_call' =
          IF branch_call.fetch = "ok"
          THEN BranchYielded(branch_call, BranchIdHeader(branch_call.item_id), "y_id")
          ELSE BranchYielded(
                  BranchYielded(branch_call, BranchIdHeader(branch_call.item_id), "y_id"),
                  BranchFailureText(branch_call.fetch), "y_fail")
    /\ UNCHANGED <<program, threads, sids, queries, entries, rawlabels, maxfault,
                   maxturn, SESSIONS, nobj, int_id, intent_history, nturn,
                   nfault, appended, law, run, th, db_file, knowledge_base,
                   last_search, item_call>>

\* handle_query_stream fetches the data and yields the id header; when the
\* fetch raises, the handler yields the failure text and the generator ends.
BranchFetch ==
    /\ branch_call.pc = "fetch"
    /\ branch_call' =
          IF branch_call.fetch = "ok"
          THEN BranchYielded(branch_call, BranchIdHeader(branch_call.item_id), "y_id")
          ELSE BranchYielded(branch_call, BranchFailureText(branch_call.fetch), "y_fail")
    /\ UNCHANGED <<program, threads, sids, queries, entries, rawlabels, maxfault,
                   maxturn, SESSIONS, nobj, int_id, intent_history, nturn,
                   nfault, appended, law, run, th, db_file, knowledge_base,
                   last_search, item_call>>

\* chat_stream is asked for its next chunk: the provider's next piece, passed
\* on when it is not empty; the text of the exception as the last chunk when
\* the provider raises; or the end of the stream.
BranchGen ==
    LET b == branch_call
        started == [b EXCEPT !.gens = IF b.i = 0 THEN 1 ELSE @]
    IN /\ b.pc = "gen"
       /\ branch_call' =
             IF b.raise_at = b.i + 1
             THEN BranchYielded(started, ErrorText, "y_last")
             ELSE IF b.i < Len(b.pieces)
             THEN IF b.pieces[b.i + 1] # <<>>
                  THEN BranchYielded([started EXCEPT !.i = @ + 1],
                                     b.pieces[b.i + 1], "y_chunk")
                  ELSE [started EXCEPT !.i = @ + 1]
             ELSE [started EXCEPT !.pc = "end"]
       /\ UNCHANGED <<program, threads, sids, queries, entries, rawlabels, maxfault,
                      maxturn, SESSIONS, nobj, int_id, intent_history, nturn,
                      nfault, appended, law, run, th, db_file, knowledge_base,
                      last_search, item_call>>

\* handle_query_stream is exhausted: generate_stream sends the done event.
BranchEnd ==
    /\ branch_call.pc = "end"
    /\ branch_call' =
          [branch_call EXCEPT !.events = Append(@, [type |-> "done", answer |-> <<>>]),
                              !.pc = "done"]
    /\ UNCHANGED <<program, threads, sids, queries, entries, rawlabels, maxfault,
                   maxturn, SESSIONS, nobj, int_id, intent_history, nturn,
                   nfault, appended, law, run, th, db_file, knowledge_base,
                   last_search, item_call>>

BranchStep ==
    \/ BranchStart
    \/ BranchResume
    \/ BranchCancel
    \/ BranchFetch
    \/ BranchGen
    \/ BranchEnd

\* The two streamed endpoints of the service: one client sends streamed
\* requests to /chat, or one streamed request to /branch1/chat; the consumer
\* may close a stream at any event.
InitStream ==
    \/ /\ program = "api"
       /\ threads = {1}
       /\ sids = {"a"}
       /\ queries = Queries
       /\ entries = {"stream"}
       /\ rawlabels = {<<"t", "1">>, <<"t", "2">>}
       /\ maxfault = MaxFaults
       /\ maxturn = MaxLiveTurns
       /\ nobj = 0
       /\ db_file = [kind |-> "json", content |-> KnowledgeBase]
       /\ knowledge_base = LoadKnowledgeBase(db_file)
       /\ last_search = NoCall
       /\ item_call = NoItemCall
       /\ branch_call = NoBranchCall
       /\ InitState
    \/ /\ program = "api" /\ threads = {} /\ sids = {} /\ queries = {}
       /\ entries = {} /\ rawlabels = {} /\ maxfault = 0 /\ maxturn = 0
       /\ nobj = 0
       /\ db_file = [kind |-> "json", content |-> KnowledgeBase]
       /\ knowledge_base = LoadKnowledgeBase(db_file)
       /\ last_search = NoCall
       /\ item_call = NoItemCall
       /\ branch_call \in BranchCalls
       /\ InitState

NextStream == (\E w \in Threads : StepLive(w) \/ Cancel(w)) \/ BranchStep

SpecStream == InitStream /\ [][NextStream]_vars

\* --------------------------------------------------------------------- claims
Routed(w) == th[w].mode # ""
NumResults(w) == Len(th[w].search_results)
UpdateStepOf(w, o) ==
    th[w].pc = "update" /\ th'[w].pc = "search" /\ th[w].session = o

\* C1: in every implementation the intent step sets the follow-up counter to
\* its previous value plus 1 when the normalised label is "t1" and to 1 for
\* every other label, recognised or not, and no other step of a turn changes
\* the counter.
C1_CounterUpdate ==
    [][\A o \in Objs :
          IF \E w \in Threads : UpdateStepOf(w, o)
          THEN \A w \in Threads :
                  UpdateStepOf(w, o) =>
                     int_id'[o] = IF th[w].intent_result = "t1"
                                  THEN int_id[o] + 1 ELSE 1
          ELSE int_id'[o] = int_id[o]]_vars

\* C1 witness: an unrecognised label has reset a counter that stood at 2.
C1_Witness ==
    \E w \in Threads :
       /\ th[w].pc = "search"
       /\ th[w].intent_result \notin {"t1", "t2"}
       /\ th[w].c_before = 2
       /\ int_id[th[w].session] = 1

\* C2: with at least one result and a counter >= 3 after the intent update
\* the turn is deferred: neither the answer nor the options branch is taken
\* and there is no detail fetch, no label fetch and no generation call.
C2_CounterGate ==
    \A w \in Threads :
       (th[w].searched /\ NumResults(w) >= 1 /\ th[w].c_after >= 3) =>
          /\ th[w].mode \in {"", "defer"}
          /\ th[w].fetches = 0
          /\ th[w].label_fetches = 0
          /\ th[w].gens = 0

\* C2 witness: a finished turn with two results and counter exactly 3.
C2_Witness ==
    \E w \in Threads :
       /\ th[w].pc = "done"
       /\ NumResults(w) = 2
       /\ th[w].c_after = 3
       /\ th[w].mode = "defer"

\* C3: with no result the turn gives the implementation's fixed not-found
\* text, whatever the counter, and makes no fetch and no generation call.
C3_EmptyDefers ==
    \A w \in Threads :
       (Routed(w) /\ NumResults(w) = 0) =>
          /\ th[w].mode = "defer"
          /\ th[w].assistant_response =
                (IF th[w].entry = "cli" THEN CliNotFound ELSE EngineNotFound)
          /\ Stream(w) => th[w].out = <<EngineNotFound>>
          /\ th[w].fetches = 0
          /\ th[w].label_fetches = 0
          /\ th[w].gens = 0

\* C3 witness: a finished engine turn with no result while the counter is 3.
C3_Witness ==
    \E w \in Threads :
       /\ th[w].pc = "done"
       /\ th[w].entry # "cli"
       /\ th[w].searched
       /\ NumResults(w) = 0
       /\ th[w].c_after = 3

\* C4 (as claimed): a turn with exactly one result and a counter < 3 is in
\* answer mode and has made exactly one detail fetch and exactly one
\* generation call when it commits, through the buffered and the streamed
\* entry point alike.
C4_OneFetchOneGeneration ==
    \A w \in Threads :
       (/\ th[w].pc \in {"commit", "commit2", "done"}
        /\ NumResults(w) = 1
        /\ th[w].c_after < 3) =>
          /\ th[w].mode = "answer"
          /\ th[w].fetches = 1
          /\ th[w].gens = 1

\* C5: with more than one result and a counter < 3 the turn takes the
\* options branch, makes no generation call, and its response carries the
\* original query and exactly one {id, label} entry per search result, in
\* the order of the results.
C5_OptionsResponse ==
    \A w \in Threads :
       (Routed(w) /\ NumResults(w) > 1 /\ th[w].c_after < 3) =>
          /\ th[w].mode = "options"
          /\ th[w].gens = 0
          /\ th[w].label_fetches > 0 =>
                /\ th[w].rtype = "options"
                /\ th[w].old_query = th[w].query
                /\ Len(th[w].options) = NumResults(w)
                /\ \A i \in 1..NumResults(w) :
                      /\ th[w].options[i].id = th[w].search_results[i].id
                      /\ th[w].options[i].business_name # ""
                /\ Stream(w) =>
                      th[w].out = <<DumpPayload("stream", th[w].query, th[w].options)>>

\* C5 witness: a finished streamed turn that offered two options.
C5_Witness ==
    \E w \in Threads :
       /\ th[w].pc = "done"
       /\ Stream(w)
       /\ NumResults(w) = 2
       /\ Len(th[w].options) = 2

\* C6 (as claimed): a turn deferred with results present gives a
\* too-many-follow-ups text that is not a not-found text.
C6_DistinctDeferTexts ==
    \A w \in Threads :
       (th[w].mode = "defer" /\ NumResults(w) >= 1) =>
          th[w].assistant_response \notin {EngineNotFound, CliNotFound}

\* C7: a fresh session whose turns are labelled new, same, same, new, same
\* has the counter 1, 2, 3, 1, 2 after its first, second, ... fifth turn.
C7_CounterLaw ==
    \A o \in Objs :
       law[o] >= 1 => int_id[o] = LawTrajectory[law[o]]

\* C7 witness: the five labels have been processed and the fifth turn is
\* committed.
C7_Witness ==
    \E w \in Threads :
       /\ th[w].pc = "done"
       /\ th[w].session # 0
       /\ law[th[w].session] = 5
       /\ th[w].turn = 5

\* C8 (as claimed): a history never holds more than 10 entries, and holds the
\* 10 most recently appended ones, in order, once more than 10 were appended.
C8_HistoryCapped ==
    \A o \in Objs :
       LET h == intent_history[o] IN
       /\ Len(h) <= 10
       /\ appended[o] > 10 => Len(h) = 10
       /\ \A i \in 1..Len(h) : h[i].n = appended[o] - Len(h) + i

\* C9 (as claimed): the turns of a session are serialized, so its history is
\* that of some sequential order of the turns: a user entry at every odd
\* position, followed by the assistant entry of the same turn.
C9_SerialHistory ==
    \A o \in Objs :
       LET h == intent_history[o] IN
       \A i \in 1..Len(h) :
          IF i % 2 = 1 THEN h[i].role = "user"
          ELSE h[i].role = "assistant" /\ h[i].turn = h[i - 1].turn

\* The positions of the history of object o that hold entries of turn t.
TurnEntries(o, t) ==
    {i \in 1..Len(intent_history[o]) : intent_history[o][i].turn = t}

\* C10 (as claimed): a cancelled streamed turn leaves both of its entries in
\* the history or neither, and when it leaves none the counter is what it was
\* before the turn.
C10_CancelAllOrNothing ==
    \A w \in Threads :
       th[w].pc = "cancelled" =>
          LET o == th[w].session
              k == Cardinality(TurnEntries(o, th[w].turn))
          IN /\ k \in {0, 2}
             /\ (k = 0 /\ th[w].c_after > 0) => int_id[o] = th[w].c_before

\* ------------------------------------------------------------ error handling
Aborted(w) == th[w].pc \in {"except", "failed"}

\* The text the else-branch of the turn's implementation gives for no result.
NotFoundText(w) == IF th[w].entry = "cli" THEN CliNotFound ELSE EngineNotFound

\* C11: when the classifier call raises the turn goes on: the label is "t2",
\* the counter becomes 1, the search runs as for any query, and the branch is
\* the one a turn with counter 1 takes for its number of results.
C11_ClassifierFailureIsNewTopic ==
    \A w \in Threads :
       "classify" \in th[w].raised =>
          /\ th[w].intent_result = "t2"
          /\ th[w].pc # "update" =>
                (th[w].c_after = 1 /\ int_id[th[w].session] = 1)
          /\ th[w].pc \notin {"update", "search"} => th[w].searched
          /\ (th[w].searched /\ "search" \notin th[w].raised) =>
                th[w].search_results =
                   Search(KnowledgeBase, Embed(th[w].query), TopK, Threshold)
          /\ Routed(w) =>
                th[w].mode = (IF NumResults(w) = 0 THEN "defer"
                              ELSE IF NumResults(w) = 1 THEN "answer"
                              ELSE "options")
          /\ Aborted(w) => "fetch2" \in th[w].raised

\* C11 witness: the classifier failed on the third turn of a session whose
\* counter stood at 2, and the turn answered its single match.
C11_Witness ==
    \E w \in Threads :
       /\ th[w].pc = "done"
       /\ "classify" \in th[w].raised
       /\ th[w].c_before = 2
       /\ NumResults(w) = 1
       /\ th[w].mode = "answer"

\* C12: when the search step raises the turn is that of an empty retrieval:
\* no result, the not-found text, no fetch and no generation call, no
\* exception out of the router, and the turn's entries are in the history
\* when it ends.
C12_SearchFailureIsEmpty ==
    \A w \in Threads :
       "search" \in th[w].raised =>
          /\ NumResults(w) = 0
          /\ ~Aborted(w)
          /\ th[w].fetches = 0
          /\ th[w].label_fetches = 0
          /\ th[w].gens = 0
          /\ Routed(w) =>
                (th[w].mode = "defer" /\ th[w].assistant_response = NotFoundText(w))
          /\ th[w].pc = "done" =>
                LET h == intent_history[th[w].session] IN
                /\ Cardinality(TurnEntries(th[w].session, th[w].turn)) =
                      (IF th[w].entry = "cli" THEN 4 ELSE 2)
                /\ h[Len(h)].turn = th[w].turn
                /\ h[Len(h)].role = "assistant"
                /\ h[Len(h)].content = NotFoundText(w)
                /\ h[Len(h) - 1].content = <<th[w].query>>

\* C12 witness: a finished engine turn whose search raised, for a query that
\* has two matches in the knowledge base.
C12_Witness ==
    \E w \in Threads :
       /\ th[w].pc = "done"
       /\ th[w].entry # "cli"
       /\ "search" \in th[w].raised
       /\ Len(Search(KnowledgeBase, Embed(th[w].query), TopK, Threshold)) = 2
       /\ Len(intent_history[th[w].session]) >= 2

\* C13 (as claimed): when a detail query of a single-match turn raises, the
\* context of the generation is the stored text of the match if the context
\* query was the one that raised, no exception leaves the router, and the
\* turn ends with a generated answer.
C13_FetchFailureFallsBack ==
    \A w \in Threads :
       (th[w].raised \cap {"fetch", "fetch2"} # {}) =>
          /\ th[w].mode = "answer"
          /\ "fetch" \in th[w].raised =>
                th[w].context = th[w].search_results[1].text
          /\ ~Aborted(w)
          /\ th[w].pc = "done" =>
                (th[w].gens = 1 /\ th[w].assistant_response # <<>>)

\* The text made of the first k fragments generated for a context.
PartialAnswer(ctx, k) == Join([i \in 1..k |-> GenFragments(ctx)[i]])

Last(s) == s[Len(s)]

\* C14: when the generation stream of a streamed turn raises after k
\* fragments, a last fragment that is no generated fragment (the error
\* indicator) is yielded after them and sent as a content event, and the turn
\* ends with a user entry and an assistant entry that holds the k fragments
\* followed by the indicator.
C14_PartialAnswerCommitted ==
    \A w \in Threads :
       (Stream(w) /\ "gen" \in th[w].raised) =>
          LET l == th[w]
              k == l.gen_i
              h == intent_history[l.session]
              mark == Last(l.answer_chunks)
          IN /\ Len(l.answer_chunks) = k + 1
             /\ \A i \in 1..k : l.answer_chunks[i] = GenFragments(l.context)[i]
             /\ mark # <<>>
             /\ \A i \in 1..MaxChunks : mark # GenFragments(l.context)[i]
             /\ Last(l.out) = mark
             /\ ~Aborted(w)
             /\ l.pc \in {"y_chunk", "gen", "commit", "commit2", "cancelled"} =>
                   Last(l.events) = ContentEvent(mark)
             /\ l.pc \in {"commit", "commit2", "done"} =>
                   l.assistant_response = PartialAnswer(l.context, k) \o mark
             /\ l.pc = "done" =>
                   /\ Last(l.events).type = "done"
                   /\ l.events[Len(l.events) - 1] = ContentEvent(mark)
                   /\ Last(h).role = "assistant"
                   /\ Last(h).turn = l.turn
                   /\ Last(h).content = PartialAnswer(l.context, k) \o mark
                   /\ h[Len(h) - 1].role = "user"
                   /\ h[Len(h) - 1].turn = l.turn

\* C14 witness: a finished streamed turn whose generation raised after one
\* fragment.
C14_Witness ==
    \E w \in Threads :
       /\ th[w].pc = "done"
       /\ Stream(w)
       /\ "gen" \in th[w].raised
       /\ th[w].gen_i = 1
       /\ Len(th[w].out) = 3

\* C15 (as claimed): whatever collaborator calls raise, no turn ends with an
\* exception leaving handle_query or handle_query_stream.
C15_NoExceptionEscapes ==
    \A w \in Threads : th[w].pc # "failed"

\* Text `text` carries the text of a raised exception.
CarriesError(text) ==
    \E i \in 1..Len(text) : <<text[i]>> \in {ErrorText, HandlerErrorText}

\* C16 (as claimed): no response, no yielded fragment and no event of a turn
\* carries the text of a raised exception.
C16_NoRawErrorText ==
    \A w \in Threads :
       /\ ~CarriesError(th[w].assistant_response)
       /\ \A i \in 1..Len(th[w].out) : ~CarriesError(th[w].out[i])
       /\ \A i \in 1..Len(th[w].events) : ~CarriesError(th[w].events[i].answer)

\* --------------------------------------------------------------------- search
Returned == last_search.state = "returned"

\* The similarity search computes for entry i of the knowledge base.
SimOf(i) == CosineSimilarity(last_search.query_vector, knowledge_base[i].vector)

SimEq(a, b) == SimGE(a, b) /\ SimGE(b, a)

\* The ids of the entries a call returned.
ReturnedIds ==
    {last_search.final_results[i].id : i \in 1..Len(last_search.final_results)}

\* C17: the list search returns has non-increasing similarities, all of them
\* >= the threshold, and at most top_k elements.
C17_SearchPostcondition ==
    Returned =>
       LET r == last_search.final_results IN
       /\ Len(r) <= last_search.top_k
       /\ \A i \in 1..Len(r) :
             SimGE(r[i].similarity, last_search.similarity_threshold)
       /\ \A i \in 1..(Len(r) - 1) : SimGE(r[i].similarity, r[i + 1].similarity)

\* C17 witness: a call with top_k = 2 on three entries that all pass the
\* threshold returned two entries of different similarity.
C17_Witness ==
    /\ Returned
    /\ last_search.top_k = 2
    /\ Len(knowledge_base) = 3
    /\ \A i \in 1..3 :
          /\ knowledge_base[i].vector # <<>>
          /\ SimGE(SimOf(i), last_search.similarity_threshold)
    /\ Len(last_search.final_results) = 2
    /\ SimGT(last_search.final_results[1].similarity,
             last_search.final_results[2].similarity)

\* C18 (as claimed): no entry whose vector has norm zero is in a result, and
\* a query vector of norm zero gets no result.
C18_ZeroNormNeverMatches ==
    Returned =>
       /\ \A i \in ReturnedIds : Norm2(knowledge_base[i].vector) # 0
       /\ Norm2(last_search.query_vector) = 0 => last_search.final_results = <<>>

\* The entries that have a vector of non-zero norm and a similarity >= the
\* threshold.
Eligible ==
    {i \in 1..Len(knowledge_base) :
        /\ knowledge_base[i].vector # <<>>
        /\ Norm2(knowledge_base[i].vector) # 0
        /\ SimGE(SimOf(i), last_search.similarity_threshold)}

\* C19 (as claimed): the result is the first top_k of the entries with a
\* non-zero-norm vector and a similarity >= the threshold, by similarity
\* descending: it has min(top_k, number of such entries) elements, each one
\* such an entry with its id, text and similarity, none twice, and no entry
\* left out has a larger similarity than one returned; base [1,0], [0,1] with
\* query [1,0], top_k 3 and threshold 0.5 gives exactly id 1.
C19_FullScanExact ==
    Returned =>
       LET r == last_search.final_results
           n == Cardinality(Eligible)
       IN /\ Len(r) = (IF n < last_search.top_k THEN n ELSE last_search.top_k)
          /\ \A i \in 1..Len(r) :
                /\ r[i].id \in Eligible
                /\ r[i].text = knowledge_base[r[i].id].text
                /\ r[i].similarity = SimOf(r[i].id)
          /\ \A i, j \in 1..Len(r) : i # j => r[i].id # r[j].id
          /\ \A i \in 1..(Len(r) - 1) : SimGE(r[i].similarity, r[i + 1].similarity)
          /\ \A e \in Eligible \ ReturnedIds :
                \A i \in 1..Len(r) : SimGE(r[i].similarity, SimOf(e))
          /\ (/\ Len(knowledge_base) = 2
              /\ knowledge_base[1].vector = <<1, 0>>
              /\ knowledge_base[2].vector = <<0, 1>>
              /\ last_search.query_vector = <<1, 0>>
              /\ last_search.top_k = 3
              /\ last_search.similarity_threshold = Threshold) =>
                (Len(r) = 1 /\ r[1].id = 1)

\* C20: entries of equal similarity are returned in the order of the
\* knowledge base, and an entry left out that ties with a returned one comes
\* after it in the knowledge base.
C20_TiesInInsertionOrder ==
    Returned =>
       LET r == last_search.final_results IN
       /\ \A i, j \in 1..Len(r) :
             (i < j /\ SimEq(r[i].similarity, r[j].similarity)) =>
                r[i].id < r[j].id
       /\ \A i \in 1..Len(r) :
             \A e \in 1..Len(knowledge_base) :
                (/\ knowledge_base[e].vector # <<>>
                 /\ e \notin ReturnedIds
                 /\ SimEq(SimOf(e), r[i].similarity)) => e > r[i].id

\* C20 witness: three entries tie, top_k = 2 keeps the first two in order.
C20_Witness ==
    /\ Returned
    /\ last_search.top_k = 2
    /\ Len(knowledge_base) = 3
    /\ \A i \in 1..3 : knowledge_base[i].vector # <<>>
    /\ SimEq(SimOf(1), SimOf(2))
    /\ SimEq(SimOf(2), SimOf(3))
    /\ knowledge_base[1].vector # knowledge_base[2].vector
    /\ Len(last_search.final_results) = 2
    /\ last_search.final_results[1].id = 1
    /\ last_search.final_results[2].id = 2

C22_DegenerateIndexIsEmpty ==
    /\ db_file.kind \in {"missing", "malformed"} => knowledge_base = <<>>
    /\ (/\ Returned
        /\ \A i \in 1..Len(knowledge_base) :
              knowledge_base[i].vector = <<0, 0>>) =>
          last_search.final_results = <<>>

\* ------------------------------------------------------- session independence
\* C23: under every interleaving, a step of a turn for session A leaves the
\* binding, the follow-up counter and the intent_history of every other
\* session B unchanged.
C23_SessionsIndependent ==
    [][\A w \in Threads :
          th'[w] # th[w] =>
             \A b \in SessionIds \ {th'[w].sid} :
                /\ SESSIONS'[b] = SESSIONS[b]
                /\ SESSIONS[b] # 0 =>
                      /\ int_id'[SESSIONS[b]] = int_id[SESSIONS[b]]
                      /\ intent_history'[SESSIONS[b]] =
                            intent_history[SESSIONS[b]]]_vars

\* C23 witness: two turns of different sessions are interleaved, each between
\* its counter update and its history update, on different session objects.
C23_Witness ==
    /\ th[1].sid = "a" /\ th[2].sid = "b"
    /\ ~Free(1) /\ ~Free(2)
    /\ th[1].session # 0 /\ th[2].session # 0
    /\ th[1].session # th[2].session
    /\ th[1].c_after >= 1 /\ th[2].c_after >= 1
    /\ int_id[SESSIONS["a"]] = 1 /\ int_id[SESSIONS["b"]] = 1
    /\ intent_history[SESSIONS["a"]] = <<>>
    /\ intent_history[SESSIONS["b"]] = <<>>

\* ------------------------------------------------------------ item API claims
\* C24 (as claimed): GET /item/<item_id> answers 200 with the data when the
\* item exists, 404 when no item with that id exists, and 500 when the
\* database fails; a database failure is never answered with 404.
C24_ItemStatus ==
    item_call.state = "returned" =>
       LET r == item_call.response
           f == item_call.failure
       IN /\ f \in {"connect", "type_query", "rows_query"} => r.status = 500
          /\ (f = "none" /\ item_call.row.type = "absent") => r.status = 404
          /\ (f = "none" /\ item_call.row.type # "absent" /\ r.status = 200) =>
                r.body # <<>>

\* ------------------------------------------------------ entry point claims
\* The entries of the turn of thread w in the history of its session, as
\* role and content.
TurnContents(w) ==
    LET OfTurn(e) == e.turn = th[w].turn
        own == SelectSeq(intent_history[th[w].session], OfTurn)
    IN [i \in 1..Len(own) |-> [role |-> own[i].role, content |-> own[i].content]]

\* C25 (as claimed): a finished handle_query and a fully consumed
\* handle_query_stream that started from the same session state with the same
\* query and met the same collaborator outcomes chose the same mode and left
\* the same counter and the same appended history entries.
C25_EntryPointsAgree ==
    \A v, w \in Threads :
       (/\ th[v].pc = "done" /\ th[w].pc = "done"
        /\ th[v].entry = "buffered" /\ th[w].entry = "stream"
        /\ th[v].session # th[w].session
        /\ th[v].query = th[w].query
        /\ th[v].c_before = th[w].c_before
        /\ th[v].hist_seen = 0 /\ th[w].hist_seen = 0
        /\ th[v].intent_result = th[w].intent_result
        /\ th[v].search_results = th[w].search_results
        /\ th[v].raised = th[w].raised) =>
          /\ th[v].mode = th[w].mode
          /\ th[v].c_after = th[w].c_after
          /\ int_id[th[v].session] = int_id[th[w].session]
          /\ TurnContents(v) = TurnContents(w)

\* ------------------------------------------------------------- label claims
\* The lookup of candidate i of the turn of thread w returned.
LookupSucceeded(w, i) == th[w].labels_failed = 0 \/ i < th[w].labels_failed

\* C26 (as claimed): in disambiguate mode each candidate is labelled on its
\* own: with the name of the data store when its lookup succeeds with a
\* non-empty name, with its stored text only when its lookup fails or
\* returns nothing.
C26_LabelPerCandidate ==
    \A w \in Threads :
       th[w].rtype = "options" =>
          \A i \in 1..Len(th[w].options) :
             LET r == th[w].search_results[i] IN
             (LookupSucceeded(w, i) /\ BusinessName(r.id) # "") =>
                th[w].options[i].business_name = BusinessName(r.id)

\* ------------------------------------------------------------- order claims
\* C27: in every turn the steps run in the order classify, counter update,
\* retrieval, mode decision, context fetch, generation, history update: the
\* classifier sees the history without the entries of this turn, the mode is
\* decided from the counter after this turn's update, and the entries of the
\* turn are appended last, after which the turn changes nothing.
C27_StepOrder ==
    \A w \in Threads :
       th[w].session # 0 =>
          LET l == th[w]
              o == l.session
              k == Cardinality(TurnEntries(o, l.turn))
          IN /\ l.intent_result = "" => l.c_after = 0
             /\ l.c_after = 0 => ~l.searched
             /\ ~l.searched => l.mode = ""
             /\ l.mode = "" =>
                   l.fetches = 0 /\ l.label_fetches = 0 /\ l.gens = 0 /\ k = 0
             /\ l.fetches > 0 => l.mode = "answer"
             /\ l.label_fetches > 0 => l.mode = "options"
             /\ l.gens > 0 => l.fetches > 0
             /\ (l.intent_result # "" /\ k = 0) =>
                   l.hist_seen = Len(intent_history[o])
             /\ l.c_after > 0 =>
                   /\ l.c_after = CounterAfter(l.c_before, l.intent_result)
                   /\ int_id[o] = l.c_after
             /\ Routed(w) => l.mode = RouteMode(NumResults(w), l.c_after)
             /\ k > 0 =>
                   /\ l.pc \in {"commit2", "done"}
                   /\ l.assistant_response # <<>>
                   /\ Last(intent_history[o]).turn = l.turn
             /\ l.pc = "done" =>
                   /\ k >= 2
                   /\ Last(intent_history[o]).role = "assistant"
                   /\ Last(intent_history[o]).content = l.assistant_response

\* C27 witness: the third turn of a session is finished; its label "t1" took
\* the counter from 2 to 3, it was deferred although the search gave a result,
\* and its two entries end the history.
C27_Witness ==
    \E w \in Threads :
       /\ th[w].pc = "done"
       /\ th[w].c_before = 2 /\ th[w].c_after = 3
       /\ NumResults(w) = 1
       /\ th[w].mode = "defer"
       /\ th[w].hist_seen = 4
       /\ Len(intent_history[th[w].session]) = 6

\* ----------------------------------------------------------- counter claims
\* C28: in a run of consecutive turns of a session with no label other than
\* "t1" after its first turn, only the first two turns can be served in
\* answer or disambiguate mode and every turn from the third on is deferred;
\* the first turn with another label starts a new run, has counter 1 and is
\* served by the number of results alone.
C28_FollowupLockout ==
    \A w \in Threads :
       Routed(w) =>
          LET l == th[w]
              r == run[l.session]
          IN /\ r >= 1
             /\ r >= 3 => l.mode = "defer"
             /\ (r <= 2 /\ NumResults(w) = 1) => l.mode = "answer"
             /\ (r <= 2 /\ NumResults(w) >= 2) => l.mode = "options"
             /\ l.intent_result # "t1" => r = 1 /\ l.c_after = 1
             /\ (l.intent_result = "t1" /\ l.c_before >= 1) => r >= 2

\* C28 witness: after a run of four turns, the last two of them deferred, the
\* fifth turn has another label and is answered.
C28_Witness ==
    \E w \in Threads :
       /\ th[w].pc = "done"
       /\ th[w].turn = 5
       /\ th[w].c_before = 4
       /\ th[w].intent_result # "t1"
       /\ run[th[w].session] = 1
       /\ th[w].mode = "answer"
       /\ Len(intent_history[th[w].session]) >= 10

\* C29: a fresh session has counter 0; the first turn of a session leaves the
\* counter at exactly 1 whatever its label; after n >= 1 turns the counter is
\* at least 1 and at most n; so neither of the first two turns of a session
\* is deferred when the search gave a result.
C29_CounterBounds ==
    /\ \A o \in Objs :
          /\ int_id[o] >= 0
          /\ int_id[o] <= nturn
          /\ (nturn = 0 \/ o > nobj) => int_id[o] = 0
    /\ \A w \in Threads :
          th[w].c_after > 0 =>
             LET l == th[w]
                 o == l.session
             IN /\ 1 <= int_id[o] /\ int_id[o] <= l.turn
                /\ l.c_before = 0 => int_id[o] = 1
                /\ l.turn = 1 => l.c_before = 0
                /\ (Routed(w) /\ l.turn <= 2 /\ NumResults(w) >= 1) =>
                      l.mode \in {"answer", "options"}

\* C29 witness: the first turn of a session left the counter at 1; the
\* second, labelled "t1", has counter 2 and is served with options.
C29_Witness ==
    \E w \in Threads :
       /\ th[w].pc = "done"
       /\ th[w].turn = 2
       /\ th[w].intent_result = "t1"
       /\ th[w].c_before = 1
       /\ int_id[th[w].session] = 2
       /\ th[w].mode = "options"

\* ---------------------------------------------------- buffered entry point
\* C30: every call of handle_query, in every mode and under every collaborator
\* failure, returns after one counter update and two appended entries: the
\* user entry with the query, then the assistant entry with the answer or
\* defer text, or in disambiguate mode the JSON text of the options data.
C30_BufferedTurnCommits ==
    \A w \in Threads :
       th[w].entry = "buffered" =>
          LET l == th[w]
              o == l.session
          IN /\ l.pc \notin ({"except", "failed", "cancelled"} \cup YieldPcs)
             /\ l.pc = "done" =>
                   LET h == intent_history[o]
                       n == Len(h)
                   IN /\ int_id[o] = CounterAfter(l.c_before, l.intent_result)
                      /\ n = l.hist_seen + 2
                      /\ TurnEntries(o, l.turn) = {n - 1, n}
                      /\ h[n - 1].role = "user"
                      /\ h[n - 1].content = <<l.query>>
                      /\ h[n].role = "assistant"
                      /\ l.mode \in {"answer", "options", "defer"}
                      /\ l.mode = "answer" =>
                            /\ l.rtype = "answer"
                            /\ h[n].content =
                                  (IF "gen" \in l.raised THEN ErrorText
                                   ELSE Join(GenFragments(l.context)))
                      /\ l.mode = "defer" =>
                            /\ l.rtype = "answer"
                            /\ h[n].content = EngineNotFound
                      /\ l.mode = "options" =>
                            /\ l.rtype = "options"
                            /\ h[n].content =
                                  <<"{", "old_query=" \o l.query, "options=">>
                                     \o DumpOptions(l.options) \o <<"}">>

\* C30 witness: a call of handle_query has returned in disambiguate mode
\* although the label lookup raised; the history holds its two entries.
C30_Witness ==
    \E w \in Threads :
       /\ th[w].entry = "buffered"
       /\ th[w].pc = "done"
       /\ th[w].mode = "options"
       /\ "labels" \in th[w].raised
       /\ Len(th[w].options) = 2
       /\ Len(intent_history[th[w].session]) = 2

\* ------------------------------------------------------- session pool claims
\* C31 (as claimed): when requests with the same unseen session id run
\* concurrently, one QASessionState is ever bound to the id and every turn of
\* the id works on it: the object a turn holds is the object SESSIONS binds
\* to its id, and no more objects were created than ids are bound.
C31_InsertRaceFree ==
    /\ \A w \in Threads :
          th[w].session # 0 => th[w].session = SESSIONS[th[w].sid]
    /\ nobj = Cardinality({s \in SessionIds : SESSIONS[s] # 0})

\* ------------------------------------------------------------ liveness claims
\* The streamed turn of thread w is over: the generator ended, normally or
\* with an exception; when no collaborator call of the turn raised it ended
\* normally, its two entries are in the history and the last event sent is
\* the done event.
StreamEnded(w) ==
    /\ th[w].pc \in {"done", "failed"}
    /\ th[w].raised = {} =>
          /\ th[w].pc = "done"
          /\ Cardinality(TurnEntries(th[w].session, th[w].turn)) = 2
          /\ Last(th[w].events).type = "done"

\* C32: when the consumer keeps iterating and the generation stream is
\* finite, every streamed turn eventually ends, and one in which no
\* collaborator failed has by then appended its two history entries and sent
\* the done event.
C32_StreamedTurnTerminates ==
    (\E w \in threads : ~Free(w)) ~> (\A w \in threads : StreamEnded(w))

\* C32 witness: a streamed turn in answer mode, consumed to the end with no
\* failure, is over after its generated fragments and the done event.
C32_Witness ==
    \E w \in Threads :
       /\ th[w].pc = "done"
       /\ Stream(w)
       /\ th[w].raised = {}
       /\ th[w].mode = "answer"
       /\ th[w].gen_i = MaxChunks
       /\ Cardinality(TurnEntries(th[w].session, th[w].turn)) = 2
       /\ Last(th[w].events).type = "done"

\* ------------------------------------------------------------- stream claims
\* The framing of a sequence of events: the metadata event is the first and
\* only the first, a content event carries a non-empty fragment, and a done
\* or error event is the last event.
Framed(ev) ==
    /\ ev # <<>> => ev[1].type = "metadata"
    /\ \A i \in 1..Len(ev) :
          /\ ev[i].type \in {"metadata", "content", "done", "error"}
          /\ ev[i].type = "metadata" => i = 1
          /\ ev[i].type = "content" => i > 1 /\ ev[i].answer # <<>>
          /\ ev[i].type \in {"done", "error"} => i = Len(ev)

Terminal(ev) == ev # <<>> /\ Last(ev).type \in {"done", "error"}

\* C33: in the streamed responses of /chat and /branch1/chat the metadata
\* event is the first event, every content event comes after it with a
\* non-empty fragment, and a stream that ends ends with exactly one terminal
\* event, done or error, never both and with nothing after it.
C33_EventFraming ==
    /\ \A w \in Threads :
          /\ Framed(th[w].events)
          /\ th[w].pc \in {"done", "failed"} /\ Stream(w) => Terminal(th[w].events)
          /\ Terminal(th[w].events) => th[w].pc \in {"done", "failed"}
    /\ Framed(branch_call.events)
    /\ branch_call.pc = "done" <=> Terminal(branch_call.events)

\* C33 witness: a /chat stream ended with the error event after the metadata
\* event and the content event of the id header.
C33_Witness ==
    \E w \in Threads :
       /\ th[w].pc = "failed"
       /\ Len(th[w].events) = 3
       /\ th[w].events[1].type = "metadata"
       /\ th[w].events[2].type = "content"
       /\ th[w].events[3].type = "error"

\* C34: in a streamed turn in answer mode the id header of the matched entry
\* is yielded before every fragment of the generation stream, the fragments
\* are yielded and sent in the order the stream produced them, and the
\* assistant entry of the history is the concatenation of exactly those
\* fragments, without the id header.
C34_StreamedAnswerOrder ==
    \A w \in Threads :
       (Stream(w) /\ th[w].mode = "answer") =>
          LET l == th[w]
              gen == GenFragments(l.context)
              k == Len(l.answer_chunks)
          IN /\ l.out # <<>>
             /\ l.out[1] = IdHeader(l.search_results[1].id)
             /\ Tail(l.out) = l.answer_chunks
             /\ l.gens > 0 \/ k = 0
             /\ k <= MaxChunks
             /\ \A i \in 1..k :
                   l.answer_chunks[i] =
                      (IF i <= l.gen_i THEN gen[i] ELSE ErrorText)
             /\ Len(l.events) >= 1 + Len(l.out)
             /\ \A i \in 1..Len(l.out) :
                   l.events[i + 1] = ContentEvent(l.out[i])
             /\ l.pc \in {"commit2", "done"} =>
                   /\ Last(intent_history[l.session]).turn = l.turn
                   /\ l.pc = "done" =>
                         /\ Last(intent_history[l.session]).role = "assistant"
                         /\ Last(intent_history[l.session]).content =
                               Join(l.answer_chunks)

\* C34 witness: a streamed turn in answer mode has ended; the id header and
\* then every fragment of the generation stream were yielded, and the
\* assistant entry is in the history.
C34_Witness ==
    \E w \in Threads :
       /\ Stream(w)
       /\ th[w].pc = "done"
       /\ th[w].mode = "answer"
       /\ th[w].raised = {}
       /\ Len(th[w].out) = 1 + MaxChunks
       /\ th[w].gen_i = MaxChunks
       /\ Last(intent_history[th[w].session]).content =
             Join(GenFragments(th[w].context))

\* --------------------------------------------------------- /branch1 claims
\* C35: Branch1Engine.handle_query_stream raises nothing to its caller (the
\* stream never carries an error event); when the data fetch fails it yields
\* one fragment, the failure text, and neither the id header nor a fragment
\* of the generation stream, and no generation call is made; when the fetch
\* succeeds the id header is the first fragment and only non-empty fragments
\* of the generation stream follow it.
C35_BranchStreamFragments ==
    branch_call.pc # "none" =>
       LET b == branch_call
           n == Len(b.out)
       IN /\ \A i \in 1..Len(b.events) : b.events[i].type # "error"
          /\ b.pc \in {"called", "y_meta", "fetch"} => n = 0 /\ b.gens = 0
          /\ b.fetch # "ok" =>
                /\ b.gens = 0 /\ b.i = 0
                /\ n <= 1
                /\ n = 1 => b.out[1] = BranchFailureText(b.fetch)
                /\ b.pc \in {"y_fail", "end", "done"} => n = 1
          /\ b.fetch = "ok" =>
                /\ n >= 1 => b.out[1] = BranchIdHeader(b.item_id)
                /\ b.gens > 0 => n >= 1
                /\ \A i \in 2..n :
                      /\ b.out[i] # <<>>
                      /\ b.out[i] \in {<<"piece">>, ErrorText}
                      /\ b.out[i] = ErrorText => i = n /\ b.raise_at = b.i + 1

\* C35 witness: the fetch raised on a database error; the stream ended after
\* the metadata event, one content event with the failure text, and done.
C35_Witness ==
    /\ branch_call.pc = "done"
    /\ branch_call.fetch = "db_error"
    /\ branch_call.pieces # <<>>
    /\ branch_call.gens = 0
    /\ branch_call.out = <<BranchFailureText("db_error")>>
    /\ Len(branch_call.events) = 3
    /\ branch_call.events[2] = ContentEvent(BranchFailureText("db_error"))

====
